---- MODULE Spec2Model ----
(***************************************************************************)
(* Player controller of mijocraft (src/src/player.rs): the PlayerPlugin    *)
(* systems as a state machine.                                             *)
(*                                                                         *)
(* Numbers.  The f32 quantities of the source are fixed-point integers:    *)
(*   velocities   in 1/100 pixel per second                                *)
(*   positions    in 1/100 pixel                                           *)
(*   penetrations in 1/100 pixel                                           *)
(*   normals      in 1/100 (a unit normal has length 100)                  *)
(*   angles       in 1/10000 radian (FRAC_PI_2 in 1/10000000 radian)       *)
(*   blend factor in 1/100                                                 *)
(*   delta time   in milliseconds                                          *)
(* Every product that leaves the grid is rounded to nearest, ties to even, *)
(* as the f32 operations round.                                            *)
(***************************************************************************)
EXTENDS Integers, Sequences, FiniteSets

VARIABLES
    gameState,        \* State<GameState>: "Game" or any other state ("Menu")
    players,          \* the Player entities, in spawn order (entity id = index)
    sprites,          \* the PlayerSprite entities: rotation, one child per player
    chunk_pos_res,    \* CurrentChunkPosition.position
    chunks,           \* positions of the Chunk entities present in the world
    unload_chunks_ev, \* UnloadChunks events written and not yet read
    keyboard_input,   \* ButtonInput<KeyCode> of the running frame
    time_delta,       \* Time::delta of the running frame, ms
    pc,               \* the part of the frame that runs next
    todo,             \* systems of the gated tuple that have not run this frame
    set_gated,        \* whether GameSystemSet::Player runs only in GameState::Game
    frame,            \* frames started so far
    pairs_seen,       \* contact pairs the narrow phase has reported so far
    prev_toggle,      \* history: <<noclip before the latest F toggle>>, or <<>>
    ground_before     \* history: <<is_on_ground when the frame began>>, or <<>>

vars == <<gameState, players, sprites, chunk_pos_res, chunks, unload_chunks_ev,
          keyboard_input, time_delta, pc, todo, set_gated, frame, pairs_seen,
          prev_toggle, ground_before>>

---------------------------------------------------------------------------
(* Bounds of the exploration *)

MaxFrames == 3

MaxContactFrames == 2

MaxPlayers == 2

MaxHits == 1

MaxPairs == 1

MaxPoints == 1

---------------------------------------------------------------------------
(* Constants of the program *)

GRAVITY_ACCEL == 9807

TERMINAL_GRAVITY == 53000

TILE_SIZE == 32

CHUNK_SIZE == 16

\* std::f32::consts::FRAC_PI_2 = 1.5707964, in 1/10000000 radian
FRAC_PI_2 == 15707964

\* the systems of the tuple that is gated by is_inside_valid_chunk
Systems == {"player_input", "apply_gravity", "update_grounded", "rotate_player"}

Keys == {"F", "Left", "Right", "Up", "Down"}

\* the key combinations of a frame: each key alone, and a toggle with a jump
KeySets == {{}, {"F"}, {"Left"}, {"Right"}, {"Up"}, {"Down"}, {"F", "Up"}}

DtSet == {16, 250}

ChunkCoords == {<<0, 0>>, <<0, -1>>}

\* the Chunk entities of the world: none, or the chunk at one of the positions
ChunkSets == {{}} \cup {{c} : c \in ChunkCoords}

---------------------------------------------------------------------------
(* Arithmetic *)

Abs(x) == IF x < 0 THEN -x ELSE x

Sign(x) == IF x < 0 THEN -1 ELSE IF x > 0 THEN 1 ELSE 0

\* n / d rounded to nearest, ties to even (d > 0)
RoundDiv(n, d) ==
    LET q == n \div d
        r == n % d
    IN  IF 2 * r < d THEN q
        ELSE IF 2 * r > d THEN q + 1
        ELSE IF q % 2 = 0 THEN q ELSE q + 1

\* the largest power of two that is at most n (n >= 1)
RECURSIVE Pow2Floor(_)
Pow2Floor(n) == IF n < 2 THEN 1 ELSE 2 * Pow2Floor(n \div 2)

\* (n / d).round() in f32 (d > 0): the quotient is rounded to 24 significant
\* bits first, so that a quotient within half an ulp below k + 0.5 becomes
\* k + 0.5, and round() then takes the tie away from zero
RoundAway(n, d) ==
    LET a    == Abs(n)
        q    == a \div d
        r    == a % d
        ulp  == IF q = 0 THEN 0 ELSE (d * Pow2Floor(q)) \div 8388608
        m    == IF 2 * r + ulp >= d THEN q + 1 ELSE q
    IN  IF n >= 0 THEN m ELSE -m

lerp(a, b, t) == a + RoundDiv((b - a) * t, 100)

get_chunk_position(tile) == <<tile[1] \div CHUNK_SIZE, tile[2] \div CHUNK_SIZE>>

---------------------------------------------------------------------------
(* Components *)

\* the Player bundle of spawn_player: Player and the Transform at (16, 50);
\* the bundle holds no LinearVelocity, Position or ShapeHits (velocity <<>>)
NewPlayer ==
    [is_on_ground |-> FALSE, direction |-> 0, noclip |-> FALSE,
     velocity |-> <<>>, position |-> <<1600, 5000>>]

\* the PlayerSprite child of spawn_player
NewSprite == [rotation |-> 0]

\* the entities of ps that match a query for LinearVelocity, Position or
\* ShapeHits next to Player: those the physics engine has prepared
with_velocity(ps) == {i \in DOMAIN ps : ps[i].velocity # <<>>}

\* Query::get_single succeeds exactly when one entity matches; q is the set
\* of matching entities
get_single(q) == Cardinality(q) = 1

\* the entity get_single returns
single(q) == CHOOSE i \in q : TRUE

pressed(keys, k) == k \in keys

---------------------------------------------------------------------------
(* Run conditions *)

is_inside_valid_chunk_any(pos, cs) == cs # {}

is_inside_valid_chunk(pos, cs) == \E c \in cs : c = pos

\* defined only when get_single succeeds; the unwrap panics otherwise
is_not_in_noclip(ps) == ~ps[single(DOMAIN ps)].noclip

---------------------------------------------------------------------------
(* Systems, as functions of the components they read and write *)

\* just_pressed(KeyF) flips the flag
input_noclip_latch(p, keys) == IF pressed(keys, "F") THEN TRUE ELSE p.noclip

input_noclip(p, keys) == IF pressed(keys, "F") THEN ~p.noclip ELSE p.noclip

input_velocity_x(p, keys) ==
    LET speed == TILE_SIZE * 10 * 100
    IN  IF pressed(keys, "Left") THEN lerp(p.velocity[1], -speed, 25)
        ELSE IF pressed(keys, "Right") THEN lerp(p.velocity[1], speed, 25)
        ELSE lerp(p.velocity[1], 0, 25)

input_direction_keep(p, keys) ==
    IF pressed(keys, "Left") THEN -1
    ELSE IF pressed(keys, "Right") THEN 1
    ELSE p.direction

input_direction(p, keys) ==
    IF pressed(keys, "Left") THEN -1
    ELSE IF pressed(keys, "Right") THEN 1
    ELSE IF p.is_on_ground THEN 0 ELSE p.direction

\* the vertical velocity after the jump keys; noclip is the flag after the toggle
input_jump(p, noclip, keys) ==
    LET jump_force == 16 * TILE_SIZE * 100
    IN  IF pressed(keys, "Up") /\ ~noclip /\ p.is_on_ground
        THEN jump_force ELSE p.velocity[2]

\* the vertical velocity after the noclip keys
input_fly(vy, noclip, keys) ==
    LET speed == TILE_SIZE * 10 * 100
    IN  IF noclip
        THEN IF pressed(keys, "Down") THEN lerp(vy, -speed, 25)
             ELSE IF pressed(keys, "Up") THEN lerp(vy, speed, 25)
             ELSE lerp(vy, 0, 25)
        ELSE vy

\* keys: "F" is just_pressed(KeyF); "Left" is pressed(ArrowLeft) or pressed(KeyA);
\* "Right" ArrowRight or KeyD; "Up" Space, KeyW or ArrowUp; "Down" KeyS or ArrowDown
player_input(p, keys) ==
    LET noclip1 == input_noclip(p, keys)
        vy1     == input_jump(p, noclip1, keys)
    IN  [p EXCEPT !.noclip = noclip1,
                  !.direction = input_direction(p, keys),
                  !.velocity = <<input_velocity_x(p, keys), input_fly(vy1, noclip1, keys)>>]

apply_gravity_noclamp(p, dt) ==
    IF ~p.noclip /\ ~p.is_on_ground /\ p.velocity[2] > -TERMINAL_GRAVITY
    THEN [p EXCEPT !.velocity[2] = @ - RoundDiv(GRAVITY_ACCEL * TILE_SIZE * dt, 1000)]
    ELSE p

apply_gravity_always(p, dt) ==
    IF ~p.noclip /\ ~p.is_on_ground
    THEN [p EXCEPT !.velocity[2] = @ - RoundDiv(GRAVITY_ACCEL * TILE_SIZE * dt, 1000)]
    ELSE p

apply_gravity(p, dt) ==
    IF ~p.noclip /\ ~p.is_on_ground
    THEN IF p.velocity[2] > -TERMINAL_GRAVITY
         THEN [p EXCEPT !.velocity[2] = @ - RoundDiv(GRAVITY_ACCEL * TILE_SIZE * dt, 1000)]
         ELSE IF p.velocity[2] < -TERMINAL_GRAVITY
         THEN [p EXCEPT !.velocity[2] = -TERMINAL_GRAVITY]
         ELSE p
    ELSE p

update_grounded(p, hits) ==
    [p EXCEPT !.is_on_ground =
        \E i \in DOMAIN hits : hits[i].normal1[2] > 0 \/ hits[i].normal2[2] > 0]

\* the grounded branch is computed in 1/10000000 radian, the unit of FRAC_PI_2
rotate_player(s, p, dt) ==
    IF ~p.is_on_ground
    THEN [s EXCEPT !.rotation = @ - 96 * dt * p.direction]
    ELSE LET rotation == s.rotation * 1000
             nineties == RoundAway(rotation, FRAC_PI_2) * FRAC_PI_2
         IN  [s EXCEPT !.rotation = RoundDiv(lerp(rotation, nineties, 25), 1000)]

player_chunk_trunc(p) ==
    LET t(x, d) == IF x >= 0 THEN x \div d ELSE -((-x) \div d)
        px == <<t(p.position[1], 100), t(p.position[2], 100)>>
        player_position == <<t(px[1], TILE_SIZE), t(px[2], TILE_SIZE)>>
    IN  get_chunk_position(player_position)

\* the chunk the Transform of p lies in
player_chunk(p) ==
    LET px == <<p.position[1] \div 100, p.position[2] \div 100>>
        player_position == <<px[1] \div TILE_SIZE, px[2] \div TILE_SIZE>>
    IN  get_chunk_position(player_position)

---------------------------------------------------------------------------
(* solve_collisions *)

Neg(v) == <<-v[1], -v[2]>>

\* ContactManifold::global_normal1/2 with Rotation::ZERO (cos 1, sin 0)
global_normal1(m) == <<m.normal1[1] * 1 - m.normal1[2] * 0, m.normal1[1] * 0 + m.normal1[2] * 1>>

global_normal2(m) == <<m.normal2[1] * 1 - m.normal2[2] * 0, m.normal2[1] * 0 + m.normal2[2] * 1>>

solve_contact_halt(p, normal, penetration) ==
    [p EXCEPT !.position = <<@[1] + RoundDiv(normal[1] * penetration, 100),
                             @[2] + RoundDiv(normal[2] * penetration, 100)>>,
              !.velocity = <<0, 0>>]

\* one contact point of penetration > 0: push out along normal, stop the axis
solve_contact(p, normal, penetration) ==
    [p EXCEPT !.position = <<@[1] + RoundDiv(normal[1] * penetration, 100),
                             @[2] + RoundDiv(normal[2] * penetration, 100)>>,
              !.velocity = <<IF normal[1] # 0 THEN 0 ELSE @[1],
                             IF normal[2] # 0 THEN 0 ELSE @[2]>>]

RECURSIVE solve_contacts(_, _, _)
solve_contacts(p, normal, contacts) ==
    IF contacts = <<>> THEN p
    ELSE LET c == Head(contacts)
             q == IF c > 0 THEN solve_contact(p, normal, c) ELSE p
         IN  solve_contacts(q, normal, Tail(contacts))

RECURSIVE solve_manifolds(_, _, _)
solve_manifolds(p, is_first, manifolds) ==
    IF manifolds = <<>> THEN p
    ELSE LET m == Head(manifolds)
             normal == IF is_first THEN Neg(global_normal1(m)) ELSE Neg(global_normal2(m))
         IN  solve_manifolds(solve_contacts(p, normal, m.contacts), is_first, Tail(manifolds))

\* one entry of Collisions; entity 0 is not a player, entity i > 0 is players[i]
solve_pair(ps, contacts) ==
    IF ~contacts.during_current_substep THEN ps
    ELSE IF contacts.entity1 \in with_velocity(ps)
    THEN [ps EXCEPT ![contacts.entity1] = solve_manifolds(@, TRUE, contacts.manifolds)]
    ELSE IF contacts.entity2 \in with_velocity(ps)
    THEN [ps EXCEPT ![contacts.entity2] = solve_manifolds(@, FALSE, contacts.manifolds)]
    ELSE ps

RECURSIVE solve_collisions(_, _)
solve_collisions(ps, collisions) ==
    IF collisions = <<>> THEN ps
    ELSE solve_collisions(solve_pair(ps, Head(collisions)), Tail(collisions))

---------------------------------------------------------------------------
(* Inputs the engine hands to the systems *)

SeqUpTo(S, n) == UNION {[1..k -> S] : k \in 0..n}

Normals == {<<0, 100>>, <<100, 0>>, <<60, 80>>}

\* ShapeHitData: the normals on the cast shape and on the hit shape
Hits == {[normal1 |-> <<0, -100>>, normal2 |-> <<0, 100>>],
         [normal1 |-> <<0, 100>>, normal2 |-> <<0, -100>>],
         [normal1 |-> <<0, -100>>, normal2 |-> <<0, -100>>]}

HitSets == SeqUpTo(Hits, MaxHits)

PenSet == {-100, 0, 200}

\* normal2 is the opposite of normal1, as the narrow phase produces them
Manifolds == {[normal1 |-> n, normal2 |-> Neg(n), contacts |-> cs] :
                 n \in Normals,
                 cs \in SeqUpTo(PenSet, MaxPoints) \ {<<>>}}

ManifoldSets == {<<>>} \cup {<<m>> : m \in Manifolds}

\* the contact pairs of a sub-step, among n players and one other body (0),
\* and one pair left over from an earlier sub-step
Pairs(n) == {[during_current_substep |-> TRUE, entity1 |-> e[1], entity2 |-> e[2],
              manifolds |-> ms] :
                 e \in {e \in (0..n) \X (0..n) : e[1] # e[2] \/ e[1] = 0},
                 ms \in ManifoldSets}
            \cup {[during_current_substep |-> FALSE, entity1 |-> 1, entity2 |-> 0,
                   manifolds |-> <<[normal1 |-> <<0, -100>>, normal2 |-> <<0, 100>>,
                                    contacts |-> <<200>>]>>]}

\* the Collisions resource: at most k contact pairs among n players and the rest
CollisionSets(n, k) == SeqUpTo(Pairs(n), k)

\* keys of the frames in which contacts are explored: none, the noclip
\* toggle, and a run to either side
ContactKeySets == {{}, {"F"}, {"Left"}, {"Right"}}

\* keys of the frames in which the noclip toggle is explored
ToggleKeySets == {{}, {"F"}}

\* delta time of the frames in which contacts are explored
ContactDtSet == {250}

---------------------------------------------------------------------------
(* The state machine *)

\* After PlayerPlugin::build.  What the file does not decide is left open: the
\* Chunk entities the chunk-streaming collaborator has created, and whether
\* GameSystemSet::Player is configured to run only in GameState::Game.
Init ==
    /\ gameState = "Menu"
    /\ players = <<>>
    /\ sprites = <<>>
    /\ chunk_pos_res = <<0, 0>>
    /\ chunks \in ChunkSets
    /\ unload_chunks_ev = <<>>
    /\ keyboard_input = {}
    /\ time_delta = 0
    /\ pc = "idle"
    /\ todo = {}
    /\ set_gated \in BOOLEAN
    /\ frame = 0
    /\ pairs_seen = 0
    /\ prev_toggle = <<>>
    /\ ground_before = <<>>

SpawnPlayer_once ==
    /\ pc = "idle"
    /\ gameState # "Game"
    /\ Len(players) < MaxPlayers
    /\ gameState' = "Game"
    /\ players' = Append(players, NewPlayer)
    /\ sprites' = Append(sprites, NewSprite)
    /\ unload_chunks_ev' = IF players = <<>>
                           THEN Append(unload_chunks_ev, [force |-> TRUE])
                           ELSE unload_chunks_ev
    /\ UNCHANGED <<chunk_pos_res, chunks, keyboard_input, time_delta, pc, todo,
                   set_gated, frame, pairs_seen, prev_toggle, ground_before>>

\* OnEnter(GameState::Game): spawn_player
SpawnPlayer ==
    /\ pc = "idle"
    /\ gameState # "Game"
    /\ Len(players) < MaxPlayers
    /\ gameState' = "Game"
    /\ players' = Append(players, NewPlayer)
    /\ sprites' = Append(sprites, NewSprite)
    /\ unload_chunks_ev' = Append(unload_chunks_ev, [force |-> TRUE])
    /\ UNCHANGED <<chunk_pos_res, chunks, keyboard_input, time_delta, pc, todo,
                   set_gated, frame, pairs_seen, prev_toggle, ground_before>>

\* the game state is left; nothing of this module runs on exit
LeaveGame ==
    /\ pc = "idle"
    /\ gameState = "Game"
    /\ Len(players) < MaxPlayers
    /\ gameState' = "Menu"
    /\ UNCHANGED <<players, sprites, chunk_pos_res, chunks, unload_chunks_ev,
                   keyboard_input, time_delta, pc, todo, set_gated, frame,
                   pairs_seen, prev_toggle, ground_before>>

\* the chunk-streaming collaborator reads the pending signals and reloads
ChunkManager ==
    /\ pc = "idle"
    /\ unload_chunks_ev # <<>>
    /\ chunks' \in ChunkSets
    /\ unload_chunks_ev' = <<>>
    /\ UNCHANGED <<gameState, players, sprites, chunk_pos_res, keyboard_input,
                   time_delta, pc, todo, set_gated, frame, pairs_seen,
                   prev_toggle, ground_before>>

\* a frame begins: the engine refreshes ButtonInput and Time, then the Update
\* schedule evaluates the run condition of the gated tuple once.  chain() is
\* called on the outer tuple: it puts the four gated systems before
\* set_chunk_pos and fixes no order among the four.
FrameStart(limit, keysets, dts) ==
    /\ pc = "idle"
    /\ frame < limit
    /\ frame' = frame + 1
    /\ time_delta' \in dts
    /\ IF set_gated /\ gameState # "Game"
       THEN /\ keyboard_input' = {}
            /\ pc' = "integrate"
            /\ todo' = {}
            /\ ground_before' = <<>>
       ELSE /\ keyboard_input' \in keysets
            /\ IF is_inside_valid_chunk(chunk_pos_res, chunks)
               THEN /\ pc' = "update"
                    /\ todo' = Systems
                    /\ ground_before' =
                          IF get_single(with_velocity(players))
                          THEN <<players[single(with_velocity(players))].is_on_ground>>
                          ELSE <<>>
               ELSE /\ pc' = "set_chunk_pos"
                    /\ todo' = {}
                    /\ ground_before' = <<>>
    /\ UNCHANGED <<gameState, players, sprites, chunk_pos_res, chunks,
                   unload_chunks_ev, set_gated, pairs_seen, prev_toggle>>

\* system s of the gated tuple runs: any of those that have not run yet; when
\* all four have run, set_chunk_pos follows
Ran(s) ==
    /\ pc = "update"
    /\ s \in todo
    /\ todo' = todo \ {s}
    /\ pc' = IF todo \ {s} = {} THEN "set_chunk_pos" ELSE "update"

PlayerInput ==
    /\ Ran("player_input")
    /\ LET q == with_velocity(players)
       IN  IF get_single(q)
           THEN /\ players' = [players EXCEPT ![single(q)] = player_input(@, keyboard_input)]
                /\ prev_toggle' = IF pressed(keyboard_input, "F")
                                  THEN <<players[single(q)].noclip>> ELSE prev_toggle
           ELSE UNCHANGED <<players, prev_toggle>>
    /\ keyboard_input' = {}
    /\ ground_before' = <<>>
    /\ UNCHANGED <<gameState, sprites, chunk_pos_res, chunks, unload_chunks_ev,
                   time_delta, set_gated, frame, pairs_seen>>

ApplyGravity ==
    /\ Ran("apply_gravity")
    /\ LET q == with_velocity(players)
       IN  players' = IF get_single(q)
                      THEN [players EXCEPT ![single(q)] = apply_gravity(@, time_delta)]
                      ELSE players
    /\ UNCHANGED <<gameState, sprites, chunk_pos_res, chunks, unload_chunks_ev,
                   keyboard_input, time_delta, set_gated, frame, pairs_seen,
                   prev_toggle, ground_before>>

\* ShapeHits of each player that has them is what the spatial query found
UpdateGrounded ==
    /\ Ran("update_grounded")
    /\ \E hs \in [with_velocity(players) -> HitSets] :
          players' = [i \in DOMAIN players |->
                         IF i \in with_velocity(players)
                         THEN update_grounded(players[i], hs[i]) ELSE players[i]]
    /\ UNCHANGED <<gameState, sprites, chunk_pos_res, chunks, unload_chunks_ev,
                   keyboard_input, time_delta, set_gated, frame, pairs_seen,
                   prev_toggle, ground_before>>

RotatePlayer ==
    /\ Ran("rotate_player")
    /\ sprites' = IF get_single(DOMAIN sprites) /\ get_single(DOMAIN players)
                  THEN <<rotate_player(sprites[1], players[1], time_delta)>>
                  ELSE sprites
    /\ UNCHANGED <<gameState, players, chunk_pos_res, chunks, unload_chunks_ev,
                   keyboard_input, time_delta, set_gated, frame, pairs_seen,
                   prev_toggle, ground_before>>

SetChunkPos ==
    /\ pc = "set_chunk_pos"
    /\ IF ~get_single(DOMAIN players)
       THEN /\ pc' = "panic_set_chunk_pos"
            /\ UNCHANGED <<unload_chunks_ev, chunk_pos_res>>
       ELSE /\ pc' = "integrate"
            /\ IF chunk_pos_res # player_chunk(players[1])
               THEN /\ unload_chunks_ev' = Append(unload_chunks_ev, [force |-> FALSE])
                    /\ chunk_pos_res' = player_chunk(players[1])
               ELSE UNCHANGED <<unload_chunks_ev, chunk_pos_res>>
    /\ keyboard_input' = {}
    /\ UNCHANGED <<gameState, players, sprites, chunks, time_delta, todo, set_gated,
                   frame, pairs_seen, prev_toggle, ground_before>>

\* the physics engine gives a new rigid body its LinearVelocity (zero) and
\* its Position (that of the Transform) before the first step
prepare(p) == IF p.velocity = <<>> THEN [p EXCEPT !.velocity = <<0, 0>>] ELSE p

\* the physics engine moves every kinematic body by velocity * dt
integrate(p, dt) ==
    [p EXCEPT !.position = <<@[1] + RoundDiv(p.velocity[1] * dt, 1000),
                             @[2] + RoundDiv(p.velocity[2] * dt, 1000)>>]

Integrate ==
    /\ pc = "integrate"
    /\ pc' = "solve_collisions"
    /\ players' = [i \in DOMAIN players |-> integrate(prepare(players[i]), time_delta)]
    /\ UNCHANGED <<gameState, sprites, chunk_pos_res, chunks, unload_chunks_ev,
                   keyboard_input, time_delta, todo, set_gated, frame, pairs_seen,
                   prev_toggle, ground_before>>

\* SubstepSet::SolveUserConstraints: the three run conditions are all
\* evaluated (the executor does not short-circuit), then the system runs on
\* the Collisions of the sub-step, of which the run reports at most limit pairs
SolveCollisions(limit) ==
    /\ pc = "solve_collisions"
    /\ IF ~get_single(DOMAIN players)
       THEN /\ pc' = "panic_is_not_in_noclip"
            /\ UNCHANGED <<players, pairs_seen>>
       ELSE /\ pc' = "idle"
            /\ IF /\ gameState = "Game"
                  /\ is_not_in_noclip(players)
                  /\ is_inside_valid_chunk(chunk_pos_res, chunks)
               THEN \E collisions \in CollisionSets(Len(players), limit - pairs_seen) :
                       /\ players' = solve_collisions(players, collisions)
                       /\ pairs_seen' = pairs_seen + Len(collisions)
               ELSE UNCHANGED <<players, pairs_seen>>
    /\ time_delta' = 0
    /\ UNCHANGED <<gameState, sprites, chunk_pos_res, chunks, unload_chunks_ev,
                   keyboard_input, todo, set_gated, frame, prev_toggle, ground_before>>

\* The frames of a player in free flight: the key combinations, no contacts
Next ==
    \/ SpawnPlayer
    \/ ChunkManager
    \/ FrameStart(MaxFrames, KeySets, DtSet)
    \/ PlayerInput
    \/ ApplyGravity
    \/ UpdateGrounded
    \/ RotatePlayer
    \/ SetChunkPos
    \/ Integrate
    \/ SolveCollisions(0)

Spec == Init /\ [][Next]_vars

\* The frames in which the narrow phase reports contacts to a player that
\* stands, runs or toggles noclip
NextContact ==
    \/ SpawnPlayer
    \/ ChunkManager
    \/ FrameStart(MaxContactFrames, ContactKeySets, ContactDtSet)
    \/ PlayerInput
    \/ ApplyGravity
    \/ UpdateGrounded
    \/ RotatePlayer
    \/ SetChunkPos
    \/ Integrate
    \/ SolveCollisions(MaxPairs)

SpecContact == Init /\ [][NextContact]_vars

\* The frames in which noclip is toggled and the narrow phase reports contacts
NextToggle ==
    \/ SpawnPlayer
    \/ ChunkManager
    \/ FrameStart(MaxFrames, ToggleKeySets, ContactDtSet)
    \/ PlayerInput
    \/ ApplyGravity
    \/ UpdateGrounded
    \/ RotatePlayer
    \/ SetChunkPos
    \/ Integrate
    \/ SolveCollisions(MaxPairs)

SpecToggle == Init /\ [][NextToggle]_vars

\* The game state is left and entered again, with no key held
NextReenter ==
    \/ SpawnPlayer
    \/ LeaveGame
    \/ ChunkManager
    \/ FrameStart(MaxFrames, {{}}, DtSet)
    \/ PlayerInput
    \/ ApplyGravity
    \/ UpdateGrounded
    \/ RotatePlayer
    \/ SetChunkPos
    \/ Integrate
    \/ SolveCollisions(0)

SpecReenter == Init /\ [][NextReenter]_vars

---------------------------------------------------------------------------
(* Properties *)

\* one Player entity
One == Len(players) = 1

\* one Player entity, and the physics engine has prepared it
Single == One /\ players[1].velocity # <<>>

\* system s of the gated tuple runs in this step
Runs(s) == pc = "update" /\ s \in todo /\ s \notin todo'

\* system s of the gated tuple has run in this frame
Done(s) == pc \in {"update", "set_chunk_pos"} /\ s \notin todo

\* width of a chunk, in 1/100 pixel
ChunkWidth == CHUNK_SIZE * TILE_SIZE * 100

\* position pos lies in the square of chunk c
InChunk(pos, c) ==
    \A i \in 1..2 : c[i] * ChunkWidth <= pos[i] /\ pos[i] < (c[i] + 1) * ChunkWidth

NonForced(ev) == Cardinality({i \in DOMAIN ev : ~ev[i].force})

\* C1: a run of set_chunk_pos with the player present leaves the stored chunk
\* equal to the chunk the player stands in; it sends exactly one non-forced
\* UnloadChunks signal when that chunk differs from the stored one and none
\* when it does not; and no other step sends a non-forced signal.
C1_ChunkTracking ==
    [][ /\ (pc = "set_chunk_pos" /\ One) =>
             /\ InChunk(players[1].position, chunk_pos_res')
             /\ IF InChunk(players[1].position, chunk_pos_res)
                THEN /\ unload_chunks_ev' = unload_chunks_ev
                     /\ chunk_pos_res' = chunk_pos_res
                ELSE unload_chunks_ev' = Append(unload_chunks_ev, [force |-> FALSE])
        /\ (NonForced(unload_chunks_ev') > NonForced(unload_chunks_ev)) =>
             /\ pc = "set_chunk_pos"
             /\ One
             /\ ~InChunk(players[1].position, chunk_pos_res)
             /\ NonForced(unload_chunks_ev') = NonForced(unload_chunks_ev) + 1
      ]_vars

\* a boundary was crossed and set_chunk_pos has recorded it
C1_Witness ==
    /\ pc = "integrate"
    /\ One
    /\ chunk_pos_res = <<0, -1>>
    /\ InChunk(players[1].position, chunk_pos_res)
    /\ unload_chunks_ev # <<>>
    /\ ~unload_chunks_ev[Len(unload_chunks_ev)].force

\* C2: every run of spawn_player sends exactly one forced UnloadChunks signal
\* and no other, and leaves CurrentChunkPosition alone, whatever the stored
\* chunk, the loaded chunks and the players already present.
C2_SpawnSignal ==
    [][ (Len(players') > Len(players)) =>
           /\ unload_chunks_ev' = Append(unload_chunks_ev, [force |-> TRUE])
           /\ chunk_pos_res' = chunk_pos_res
      ]_vars

\* a second player was spawned after the first had moved to another chunk
C2_Witness ==
    /\ Len(players) = 2
    /\ chunk_pos_res # <<0, 0>>
    /\ chunks # {}
    /\ unload_chunks_ev # <<>>
    /\ unload_chunks_ev[Len(unload_chunks_ev)].force

Closed == chunk_pos_res \notin chunks

Body(p) == <<p.noclip, p.direction, p.is_on_ground, p.velocity>>

\* C3: while the stored chunk is the position of no loaded Chunk, a frame goes
\* straight to set_chunk_pos and none of the four gated systems runs, so that
\* noclip, direction, is_on_ground, velocity and the sprite rotation are what
\* they were, and the sub-step leaves position and velocity as the integrator
\* left them.
C3_Gating ==
    [][ /\ (pc = "idle" /\ frame' = frame + 1 /\ Closed) =>
             /\ pc' = IF set_gated /\ gameState # "Game" THEN "integrate" ELSE "set_chunk_pos"
             /\ todo' = {}
        /\ (\E s \in Systems : Runs(s)) => ~Closed
        /\ (pc \in {"set_chunk_pos", "integrate"} /\ Single) =>
             /\ Len(players') = 1
             /\ Body(players'[1]) = Body(players[1])
             /\ sprites' = sprites
        /\ (pc = "solve_collisions" /\ Closed) =>
             /\ players' = players
             /\ pairs_seen' = pairs_seen
      ]_vars

\* a whole frame has passed over an airborne, prepared player with the gate
\* closed since the spawn: gravity has not touched the velocity, the sub-step
\* has reported nothing
C3_Witness ==
    /\ pc = "idle"
    /\ frame = 2
    /\ Len(unload_chunks_ev) = 1
    /\ gameState = "Game"
    /\ Single
    /\ Closed
    /\ chunks # {}
    /\ ~players[1].noclip
    /\ ~players[1].is_on_ground
    /\ players[1].velocity = <<0, 0>>
    /\ pairs_seen = 0

\* C4: an airborne player outside noclip whose vertical speed exceeds the
\* terminal value has a vertical speed of at most TERMINAL_GRAVITY after
\* apply_gravity.
C4_TerminalClamp ==
    [][ (/\ Runs("apply_gravity")
         /\ Single
         /\ ~players[1].is_on_ground
         /\ ~players[1].noclip
         /\ Abs(players[1].velocity[2]) > TERMINAL_GRAVITY) =>
           Abs(players'[1].velocity[2]) <= TERMINAL_GRAVITY
      ]_vars

\* apply_gravity has just clamped a fall to the terminal speed
C4_Witness ==
    /\ Done("apply_gravity")
    /\ frame = 3
    /\ Single
    /\ ~players[1].is_on_ground
    /\ ~players[1].noclip
    /\ players[1].velocity[2] = -TERMINAL_GRAVITY

\* the normal of manifold m on the side of players[1] in pair
OwnNormal(pair, m) == IF pair.entity1 = 1 THEN m.normal1 ELSE m.normal2

Involved(pair) == pair.entity1 = 1 \/ pair.entity2 = 1

\* C5: wherever solve_collisions is about to run, every pair of the sub-step
\* that involves the player and holds one contact point of penetration c > 0 on
\* a vertical normal moves the player by c against its own normal, stops the
\* vertical velocity and keeps the horizontal one; a pair that is stale, does
\* not involve the player or has no point of positive penetration changes
\* nothing.
C5_VerticalContact ==
    (pc = "solve_collisions" /\ Single) =>
        \A pair \in Pairs(1) :
            LET p == players[1]
                q == solve_collisions(players, <<pair>>)[1]
            IN  /\ (/\ pair.during_current_substep
                    /\ Involved(pair)
                    /\ Len(pair.manifolds) = 1
                    /\ OwnNormal(pair, pair.manifolds[1])[1] = 0
                    /\ Len(pair.manifolds[1].contacts) = 1
                    /\ pair.manifolds[1].contacts[1] > 0) =>
                      LET n == OwnNormal(pair, pair.manifolds[1])
                          c == pair.manifolds[1].contacts[1]
                      IN  /\ q.velocity = <<p.velocity[1], 0>>
                          /\ q.position[1] = p.position[1]
                          /\ q.position[2] = p.position[2] + Sign(-n[2]) * c
                          /\ Body(q) = [Body(p) EXCEPT ![4] = q.velocity]
                /\ (\/ ~pair.during_current_substep
                    \/ ~Involved(pair)
                    \/ \A i \in DOMAIN pair.manifolds :
                          \A j \in DOMAIN pair.manifolds[i].contacts :
                             pair.manifolds[i].contacts[j] <= 0) =>
                      q = p

\* a player running to the left fell for 250 ms in the first frame after the
\* spawn frame and was stopped by a floor contact of penetration 200: pushed
\* up by 200, the fall stopped, the run to the left kept
C5_Witness ==
    /\ pc = "idle"
    /\ frame = 2
    /\ Single
    /\ pairs_seen = 1
    /\ players[1].velocity = <<-(TILE_SIZE * 10 * 100) \div 4, 0>>
    /\ players[1].position =
          <<1600 - (TILE_SIZE * 10 * 100) \div 16,
            5000 + RoundDiv(-RoundDiv(GRAVITY_ACCEL * TILE_SIZE * 250, 1000) * 250, 1000) + 200>>

\* C6: an F press that follows an earlier one puts noclip back to what it was
\* before the earlier one; while noclip is set apply_gravity changes nothing and
\* solve_collisions does not run, and while it is clear an airborne player
\* below terminal speed is accelerated downwards.
C6_ToggleTwice ==
    [][ /\ (/\ Runs("player_input")
            /\ Single
            /\ "F" \in keyboard_input) =>
              /\ players'[1].noclip = ~players[1].noclip
              /\ prev_toggle # <<>> => players'[1].noclip = prev_toggle[1]
        /\ (Runs("player_input") /\ Single /\ "F" \notin keyboard_input) =>
              players'[1].noclip = players[1].noclip
        /\ (Runs("apply_gravity") /\ Single) =>
              IF players[1].noclip
              THEN players' = players
              ELSE (~players[1].is_on_ground /\ players[1].velocity[2] > -TERMINAL_GRAVITY)
                      => players'[1].velocity[2] < players[1].velocity[2]
        /\ (pc = "solve_collisions" /\ Single /\ players[1].noclip) =>
              /\ players' = players
              /\ pairs_seen' = pairs_seen
      ]_vars

\* F was pressed in two frames; in the second, with noclip clear again,
\* gravity made the player fall and solve_collisions stopped the fall on a
\* floor contact of penetration 200
C6_Witness ==
    /\ pc = "idle"
    /\ frame = 3
    /\ Single
    /\ prev_toggle = <<TRUE>>
    /\ ~players[1].noclip
    /\ pairs_seen = 1
    /\ players[1].velocity = <<0, 0>>
    /\ players[1].position =
          <<1600, 5000 + RoundDiv(-RoundDiv(GRAVITY_ACCEL * TILE_SIZE * 250, 1000) * 250, 1000) + 200>>

NoTurnKey == "Left" \notin keyboard_input /\ "Right" \notin keyboard_input

\* C7 as stated: with no left/right key and the player grounded, player_input
\* resets the direction to 0 and strictly decreases the horizontal speed.
C7_Original ==
    [][ (Runs("player_input") /\ Single /\ NoTurnKey /\ players[1].is_on_ground) =>
           /\ players'[1].direction = 0
           /\ Abs(players'[1].velocity[1]) < Abs(players[1].velocity[1])
      ]_vars

\* C7, amended: with no left/right key and the player grounded, player_input
\* resets the direction to 0; the horizontal velocity moves a quarter of the
\* way to zero (to within rounding), never grows, never changes sign, strictly
\* shrinks while the quarter step is not rounded away, and zero stays zero.
\* The direction changes in no other system.
C7_Deceleration ==
    [][ /\ (Runs("player_input") /\ Single /\ NoTurnKey /\ players[1].is_on_ground) =>
           LET x == players[1].velocity[1]
               y == players'[1].velocity[1]
           IN  /\ players'[1].direction = 0
               /\ Abs(y) <= Abs(x)
               /\ Sign(y) \in {0, Sign(x)}
               /\ Abs(4 * (x - y) - x) <= 2
               /\ Abs(x) >= 3 => Abs(y) < Abs(x)
               /\ x = 0 => y = 0
        /\ (Single /\ Len(players') = 1 /\ players'[1].direction # players[1].direction) =>
              Runs("player_input")
      ]_vars

\* the second frame, grounded and with no turn key, has slowed the run to the
\* left of the first frame and reset the direction
C7_Witness ==
    /\ Done("player_input")
    /\ frame = 3
    /\ Single
    /\ players[1].is_on_ground
    /\ players[1].direction = 0
    /\ players[1].velocity[1] = -6000

\* C8 as stated: with no player, nothing but set_chunk_pos aborts.
C8_OnlyChunkTrackingAborts ==
    (Len(players) = 0 /\ pc \in {"panic_set_chunk_pos", "panic_is_not_in_noclip"}) =>
        pc = "panic_set_chunk_pos"

\* C9 as stated: in a frame that leaves noclip clear, player_input sets the
\* vertical velocity to the jump impulse when a jump key is held and
\* is_on_ground is set as the previous frame's ground detection left it, which
\* is the flag the frame began with, and leaves it alone otherwise.
C9_Original ==
    [][ (Runs("player_input") /\ Single /\ ground_before # <<>>
           /\ ~players'[1].noclip) =>
           players'[1].velocity[2] =
              IF "Up" \in keyboard_input /\ ground_before[1]
              THEN 16 * TILE_SIZE * 100
              ELSE players[1].velocity[2]
      ]_vars

\* C10 as stated: the downward speed never exceeds TERMINAL_GRAVITY.
C10_Original ==
    \A i \in with_velocity(players) : players[i].velocity[2] >= -TERMINAL_GRAVITY

\* the velocity change of one airborne gravity step of dt ms
GravityStep(dt) == RoundDiv(GRAVITY_ACCEL * TILE_SIZE * dt, 1000)

\* C10, amended: apply_gravity takes a vertical velocity of at least
\* -TERMINAL_GRAVITY to one above -TERMINAL_GRAVITY minus one acceleration step
\* of the frame; it carries the speed past the terminal value only from below
\* it, and never increases a speed already past it.
C10_Overshoot ==
    [][ (Runs("apply_gravity") /\ Single) =>
           LET v == players[1].velocity[2]
               w == players'[1].velocity[2]
           IN  /\ v >= -TERMINAL_GRAVITY => w > -TERMINAL_GRAVITY - GravityStep(time_delta)
               /\ v = -TERMINAL_GRAVITY => w = v
               /\ v < -TERMINAL_GRAVITY => w >= v
      ]_vars

\* one gravity step has carried the fall past the terminal speed
C10_Witness ==
    /\ Done("apply_gravity")
    /\ Single
    /\ players[1].velocity[2] < -TERMINAL_GRAVITY
    /\ players[1].velocity[2] > -TERMINAL_GRAVITY - GravityStep(250)

====
